---- MODULE Spec2Model ----
(***************************************************************************)
(* A model of the `semantic` codebase summarizer: the directory walker     *)
(* (services/traversal_engine.py), the generate and verify commands        *)
(* (codebase_summarizer/main.py) with the exclude patterns of .semanticsrc *)
(* (services/config.py), the content comparison used by verify, the API    *)
(* deduplication, the requests and the chunking of the LLM client          *)
(* (services/llm_client.py), the usage collector                           *)
(* (services/llm_usage_metrics.py), the table of contents of the summary   *)
(* generator (services/summary_generator.py) and the aggregation of the    *)
(* analysis orchestrator (services/analysis_orchestrator.py).              *)
(***************************************************************************)
EXTENDS Integers, Sequences, FiniteSets, TLC

(***************************************************************************)
(* Bounds of the model.                                                    *)
(***************************************************************************)
MaxDirs == 3
\* commands run one after the other on the same tree
MaxRuns == 2

NoDir == -1
Dirs == 0 .. (MaxDirs - 1)
Root == 0

(***************************************************************************)
(* Names.  A directory or file name is kept as a record: `dot` says that   *)
(* the name starts with the character '.', `stem` is the rest of the name  *)
(* up to the suffix and `ext` is what pathlib's Path.suffix returns.       *)
(* The name '.git' is dot + "git", 'node_modules' is "node_modules".       *)
(***************************************************************************)
Nm(dot, stem) == [dot |-> dot, stem |-> stem]

\* the directory names the model draws from, in Python's string order
DirNameOrder == << Nm(TRUE, "cache"), Nm(FALSE, "lib"),
                   Nm(FALSE, "node_modules"), Nm(FALSE, "pkg") >>
DirNames == {DirNameOrder[i] : i \in 1 .. Len(DirNameOrder)}
NameRank(n) == CHOOSE i \in 1 .. Len(DirNameOrder) : DirNameOrder[i] = n

Fl(dot, stem, ext) == [dot |-> dot, stem |-> stem, ext |-> ext]
\* a.py, notes.txt, B.PY and the hidden file .lint.json
FileNames == { Fl(FALSE, "a", ".py"), Fl(FALSE, "notes", ".txt"),
               Fl(FALSE, "B", ".PY"), Fl(TRUE, "lint", ".json") }
\* the directory listings the model draws from
FileSets == { {}, {Fl(FALSE, "notes", ".txt")},
              {Fl(FALSE, "a", ".py"), Fl(FALSE, "notes", ".txt")},
              {Fl(FALSE, "B", ".PY")} }

\* str.lower() on the suffixes that occur
Lower(s) == IF s = ".PY" THEN ".py" ELSE IF s = ".R" THEN ".r" ELSE s

VARIABLES
    parent,      \* parent[d]: the directory that contains d (NoDir for the root)
    dname,       \* dname[d]: the name of directory d
    files,       \* files[d]: the regular files directly in d
    readable,    \* readable[d]: iterdir() on d does not raise PermissionError
    semantic,    \* semantic[d]: the content of d/.semantic, NoFile when absent
    available,   \* llm_client.is_available()
    yielded,     \* the directories yielded by get_directories_to_process, in order
    walked,      \* the generator has been run to exhaustion
    cmd,         \* the command that is running: "idle", "generate" or "verify"
    last,        \* the command that finished last ("none" at the start)
    runs,        \* number of commands started
    force,       \* the --force flag of the running generate
    pc,          \* pc[d]: where the task _process_single_directory(d) is
    permits,     \* the value of the asyncio.Semaphore
    requests,    \* requests[d]: LLM requests issued for d in this run
    existed,     \* existed[d]: what semantic_file.exists() returned to d's task
    orig,        \* orig[d]: the content of d/.semantic when the run started
    directories_processed,
    vidx,        \* verify: index of the next directory of the traversal
    out_of_sync_files,
    directories_checked,
    exit_code,   \* exit status of the last finished command, NoExit before
    actual,      \* the text of a committed .semantic file
    expected,    \* the regenerated text verify compares it with
    match_result,\* what _content_matches(actual, expected) returned
    mutated,     \* a line of `actual` was edited after a successful comparison
    mut_old,     \* the line that was edited, before
    mut_new,     \* and after the edit
    apis_in,     \* the list handed to _deduplicate_apis
    apis_out,    \* the list it returned
    dedup_done,
    infer_log,   \* the calls of _infer_provider_from_model and their results
    upc,         \* upc[r]: where LLM request r is in _make_llm_request(_async)
    ukind,       \* ukind[r]: "sync" (main thread) or "async" (executor thread)
    umodel,      \* umodel[r]: the model argument of request r
    utok,        \* utok[r]: response.usage of request r
    ucost,       \* ucost[r]: log_usage's local estimated_cost
    tmp,         \* tmp[r]: the total a thread has loaded for its `+=`
    entries,     \* entries[r]: log_usage calls completed for request r
    _total_cost, \* the collector's running totals
    _total_calls,
    _total_input_tokens,
    _total_output_tokens,
    usage_log,   \* the metrics log_usage has returned, in order
    overlapped,  \* two executions of log_usage have overlapped in time
    analysis,    \* the DirectoryAnalysis handed to generate_agents_md_content
    metadata,    \* and its metadata dictionary, as a sequence of items
    markdown,    \* what serialize_to_markdown returned
    table_of_contents,
    toc_done,
    semanticsrc, \* semanticsrc[d]: the exclude patterns of d/.semanticsrc
    prompt_files,\* prompt_files[d]: the files whose text is in d's prompt
    file_content,\* the file content handed to the chunking
    chunk_size_tokens,
    overlap_size_tokens,
    chunk_threshold, \* the threshold that sent the file to chunking, 0 if none
    current_pos, \* _create_overlapping_chunks: the position of the next chunk
    chunks,      \* the chunks made so far
    chunk_state, \* "idle", "running", "returned", or "single" (no chunking)
    fragments,   \* the AnalysisFragments handed to _aggregate_analysis_results
    llm_apis,    \* its argument llm_apis
    llm_skillsets, \* its argument llm_skillsets
    directory_analysis, \* the DirectoryAnalysis it returned
    aggregated   \* the call has returned

fsVars == << parent, dname, files, readable, semanticsrc >>
walkVars == << yielded, walked >>
genVars == << force, pc, permits, requests, existed, orig, directories_processed,
             prompt_files >>
verVars == << vidx, out_of_sync_files, directories_checked >>
runVars == << semantic, available, cmd, last, runs, exit_code >>
matchVars == << actual, expected, match_result, mutated, mut_old, mut_new >>
dedupVars == << apis_in, apis_out, dedup_done >>
usageVars == << upc, ukind, umodel, utok, ucost, tmp, entries, _total_cost,
               _total_calls, _total_input_tokens, _total_output_tokens,
               usage_log, overlapped >>
tocVars == << analysis, metadata, markdown, table_of_contents, toc_done >>
chunkVars == << file_content, chunk_size_tokens, overlap_size_tokens, chunk_threshold,
               current_pos, chunks, chunk_state >>
aggVars == << fragments, llm_apis, llm_skillsets, directory_analysis, aggregated >>
svcVars == << usageVars, tocVars, chunkVars, aggVars >>
pureVars == << matchVars, dedupVars, infer_log >>
vars == << parent, dname, files, readable, semantic, available, yielded, walked,
           cmd, last, runs, force, pc, permits, requests, existed, orig,
           directories_processed, vidx, out_of_sync_files, directories_checked,
           exit_code, actual, expected, match_result, mutated, mut_old, mut_new,
           apis_in, apis_out, dedup_done, infer_log,
           upc, ukind, umodel, utok, ucost, tmp, entries, _total_cost,
           _total_calls, _total_input_tokens, _total_output_tokens,
           usage_log, overlapped,
           analysis, metadata, markdown, table_of_contents, toc_done,
           semanticsrc, prompt_files,
           file_content, chunk_size_tokens, overlap_size_tokens, chunk_threshold,
           current_pos, chunks, chunk_state,
           fragments, llm_apis, llm_skillsets, directory_analysis, aggregated >>

NoFile == "NoFile"
NoExit == -1

(***************************************************************************)
(* The tree.                                                               *)
(***************************************************************************)
Children(d) == {c \in Dirs : parent[c] = d}

RECURSIVE AncestorsOrSelf(_)
AncestorsOrSelf(d) ==
    IF d = NoDir THEN {} ELSE {d} \cup AncestorsOrSelf(parent[d])

Ancestors(d) == AncestorsOrSelf(d) \ {d}

\* The directory trees the model starts from: a root, every other directory
\* below an earlier one, sibling names distinct.
TreeOK(p, n) ==
    /\ p[Root] = NoDir
    /\ \A d \in Dirs \ {Root} : p[d] \in Dirs /\ p[d] < d
    /\ \A d, e \in Dirs : (d # e /\ p[d] = p[e]) => n[d] # n[e]

(***************************************************************************)
(* TraversalEngine                                                         *)
(***************************************************************************)
skip_patterns ==
    { Nm(TRUE, "git"), Nm(TRUE, "hg"), Nm(TRUE, "svn"),
      Nm(FALSE, "__pycache__"), Nm(TRUE, "pytest_cache"),
      Nm(FALSE, "node_modules"),
      Nm(TRUE, "venv"), Nm(FALSE, "venv"), Nm(FALSE, "env"),
      Nm(FALSE, "dist"), Nm(FALSE, "build"),
      Nm(TRUE, "idea"), Nm(TRUE, "vscode"),
      Nm(TRUE, "DS_Store") }

should_skip_directory_NoDotRule(d) == dname[d] \in skip_patterns

should_skip_directory(d) == dname[d] \in skip_patterns \/ dname[d].dot

source_extensions ==
    { ".py", ".js", ".ts", ".jsx", ".tsx",
      ".java", ".kt", ".scala",
      ".c", ".cpp", ".cc", ".cxx", ".h", ".hpp",
      ".rs", ".go", ".rb", ".php", ".cs", ".swift",
      ".m", ".mm", ".r", ".R", ".sql",
      ".sh", ".bash", ".ps1",
      ".yaml", ".yml", ".json", ".toml", ".ini", ".cfg",
      ".md", ".rst" }

_has_source_files_CaseSensitive(d) ==
    /\ readable[d]
    /\ \E f \in files[d] : f.ext \in source_extensions

_has_source_files(d) ==
    /\ readable[d]
    /\ \E f \in files[d] : Lower(f.ext) \in source_extensions

\* sorted(current_path.iterdir()) restricted to directories; an unreadable
\* directory raises in iterdir() and the loop is skipped
RECURSIVE SortSet(_)
SortSet(S) ==
    IF S = {} THEN << >>
    ELSE LET m == CHOOSE x \in S :
                    \A y \in S : NameRank(dname[x]) <= NameRank(dname[y])
         IN  << m >> \o SortSet(S \ {m})

SortedSubdirs(d) == IF readable[d] THEN SortSet(Children(d)) ELSE << >>

RECURSIVE _traverse(_)
RECURSIVE TraverseAll(_)
TraverseAll(ds) ==
    IF ds = << >> THEN << >>
    ELSE _traverse(Head(ds)) \o TraverseAll(Tail(ds))

_traverse(d) ==
    IF should_skip_directory(d) THEN << >>
    ELSE (IF _has_source_files(d) THEN << d >> ELSE << >>)
         \o TraverseAll(SortedSubdirs(d))

get_directories_to_process == _traverse(Root)

(***************************************************************************)
(* The walker on its own: any tree, then one run of the generator.         *)
(***************************************************************************)
\* the variables of generate and verify before any command has run
NothingRun ==
    /\ cmd = "idle" /\ last = "none" /\ runs = 0 /\ exit_code = NoExit
    /\ force = FALSE
    /\ pc = [d \in Dirs |-> "none"]
    /\ permits = 0
    /\ requests = [d \in Dirs |-> 0]
    /\ existed = [d \in Dirs |-> "unknown"]
    /\ orig = [d \in Dirs |-> NoFile]
    /\ directories_processed = 0
    /\ prompt_files = [d \in Dirs |-> {}]
    /\ vidx = 0 /\ out_of_sync_files = << >> /\ directories_checked = 0

\* the variables of the functions that are checked on their own
NothingCompared ==
    /\ actual = << >> /\ expected = << >>
    /\ match_result = "none" /\ mutated = FALSE
    /\ mut_old = << >> /\ mut_new = << >>
NothingDeduplicated ==
    /\ apis_in = << >> /\ apis_out = << >> /\ dedup_done = FALSE
NothingInferred == infer_log = << >>

\* the bound and the variables of the usage collector before any request
MaxRequests == 2
Reqs == 1 .. MaxRequests
NothingLogged ==
    /\ upc = [r \in Reqs |-> "new"]
    /\ ukind = [r \in Reqs |-> "sync"]
    /\ umodel = [r \in Reqs |-> "gpt-5-nano"]
    /\ utok = [r \in Reqs |-> [input_tokens |-> 0, output_tokens |-> 0]]
    /\ ucost = [r \in Reqs |-> 0]
    /\ tmp = [r \in Reqs |-> 0]
    /\ entries = [r \in Reqs |-> 0]
    /\ _total_cost = 0 /\ _total_calls = 0
    /\ _total_input_tokens = 0 /\ _total_output_tokens = 0
    /\ usage_log = << >>
    /\ overlapped = FALSE

NothingSerialized ==
    /\ analysis = [file_types |-> {}, required_skillsets |-> << >>, apis |-> << >>]
    /\ metadata = << >>
    /\ markdown = << >>
    /\ table_of_contents = << >>
    /\ toc_done = FALSE

NothingChunked ==
    /\ file_content = [len |-> 0, newlines |-> {}]
    /\ chunk_size_tokens = 0 /\ overlap_size_tokens = 0 /\ chunk_threshold = 0
    /\ current_pos = 0 /\ chunks = << >>
    /\ chunk_state = "idle"

\* the services that are checked on their own have not been used
NothingAggregated ==
    /\ fragments = << >> /\ llm_apis = << >> /\ llm_skillsets = << >>
    /\ directory_analysis = [required_skillsets |-> << >>, apis |-> << >>]
    /\ aggregated = FALSE
ServicesIdle == NothingLogged /\ NothingSerialized /\ NothingChunked

\* no tree: the functions checked on their own read no directory
NoTree ==
    /\ parent = [d \in Dirs |-> NoDir]
    /\ dname = [d \in Dirs |-> Nm(FALSE, "lib")]
    /\ files = [d \in Dirs |-> {}]
    /\ readable = [d \in Dirs |-> TRUE]
    /\ semanticsrc = [d \in Dirs |-> {}]
    /\ semantic = [d \in Dirs |-> NoFile]
    /\ available = TRUE
    /\ yielded = << >>
    /\ walked = FALSE

InitWalk ==
    /\ parent \in [Dirs -> Dirs \cup {NoDir}]
    /\ dname \in [Dirs -> DirNames]
    /\ TreeOK(parent, dname)
    /\ files \in [Dirs -> FileSets]
    /\ readable \in [Dirs -> BOOLEAN]
    /\ Cardinality({d \in Dirs : ~readable[d]}) <= 1
    /\ semanticsrc = [d \in Dirs |-> {}]
    /\ semantic = [d \in Dirs |-> NoFile]
    /\ available = TRUE
    /\ yielded = << >>
    /\ walked = FALSE
    /\ NothingRun /\ ServicesIdle
    /\ NothingCompared /\ NothingDeduplicated /\ NothingInferred
    /\ NothingAggregated

Walk ==
    /\ ~walked
    /\ yielded' = get_directories_to_process
    /\ walked' = TRUE
    /\ UNCHANGED << fsVars, svcVars, genVars, verVars, runVars, pureVars >>

NextWalk == Walk

SpecWalk == InitWalk /\ [][NextWalk]_vars

(***************************************************************************)
(* Properties of the walker.                                               *)
(***************************************************************************)
Count(seq, d) == Cardinality({i \in DOMAIN seq : seq[i] = d})
Pos(seq, d) == CHOOSE i \in DOMAIN seq : seq[i] = d
InSeq(seq, d) == \E i \in DOMAIN seq : seq[i] = d

\* D directly contains a file with a recognized source extension
ContainsSourceFile(d) == \E f \in files[d] : Lower(f.ext) \in source_extensions

\* the skip rule as the specification words it
SpecSkipNames ==
    { Nm(TRUE, "git"), Nm(FALSE, "node_modules"), Nm(TRUE, "venv"),
      Nm(FALSE, "venv"), Nm(FALSE, "env"), Nm(FALSE, "dist"),
      Nm(FALSE, "build"), Nm(FALSE, "__pycache__") }
SpecSkipped(d) == dname[d] \in SpecSkipNames \/ dname[d].dot

YieldedOnceBeforeDescendants(D) ==
    /\ Count(yielded, D) = 1
    /\ \A E \in Dirs :
          (D \in Ancestors(E) /\ InSeq(yielded, E))
              => Pos(yielded, D) < Pos(yielded, E)

\* C1 as stated: every directory that directly contains a recognized source
\* file is yielded exactly once and before each yielded descendant.
C1_AsStated ==
    walked => \A D \in Dirs : ContainsSourceFile(D) => YieldedOnceBeforeDescendants(D)

\* D can be reached and listed by the walker: neither D nor a directory
\* above it (the root included) is skipped, and D and the directories above
\* it can be listed
Reachable(D) ==
    /\ \A a \in AncestorsOrSelf(D) : ~SpecSkipped(a) /\ readable[a]

\* C1 (amended): every directory that directly contains a recognized source
\* file, that is not skipped and lies under no skipped directory, and that
\* can be listed together with the directories above it, is yielded exactly
\* once and before each of its yielded descendants.
C1_YieldedOnceInPreorder ==
    walked => \A D \in Dirs :
        (ContainsSourceFile(D) /\ Reachable(D)) => YieldedOnceBeforeDescendants(D)

C1_Witness ==
    /\ walked
    /\ \E D, E \in Dirs :
          /\ D \in Ancestors(E)
          /\ ContainsSourceFile(D) /\ Reachable(D)
          /\ ContainsSourceFile(E) /\ Reachable(E)
          /\ InSeq(yielded, D) /\ InSeq(yielded, E)
          /\ Pos(yielded, D) < Pos(yielded, E)

\* C2: a directory whose name is in the skip set or starts with '.', and
\* every descendant of such a directory, is never yielded, whatever files it
\* contains.
C2_SkippedNeverYielded ==
    \A d \in Dirs :
        (\E a \in AncestorsOrSelf(d) : SpecSkipped(a)) => ~InSeq(yielded, d)

C2_Witness ==
    /\ walked
    /\ \E d, a \in Dirs :
          /\ a \in Ancestors(d) /\ a # Root
          /\ SpecSkipped(a) /\ ~SpecSkipped(d) /\ ~SpecSkipped(Root)
          /\ ContainsSourceFile(d) /\ ContainsSourceFile(a)
          /\ \A x \in Dirs : readable[x]
          /\ ~InSeq(yielded, d) /\ ~InSeq(yielded, a)
          /\ InSeq(yielded, Root)

(***************************************************************************)
(* generate and verify (codebase_summarizer/main.py)                       *)
(***************************************************************************)
\* SemanticConfig (services/config.py).  An exclude pattern is a directory
\* pattern, 'pkg/' (kind "dir", the name before the slash), or a glob for
\* fnmatch, '*.py' (kind "glob", the suffix after the star).
DirPattern(n) == [kind |-> "dir", name |-> n, ext |-> ""]
GlobPattern(x) == [kind |-> "glob", name |-> Nm(FALSE, ""), ext |-> x]

\* get_exclude_patterns of SemanticConfig(c); the directory above the root
\* holds no .semanticsrc
get_exclude_patterns(c) == IF c = NoDir THEN {} ELSE semanticsrc[c]

\* the directories from below c down to d: the directory parts of
\* path.relative_to(root_path) for a file of d
RECURSIVE DirsBelow(_, _)
DirsBelow(c, d) ==
    IF d = c \/ d = NoDir THEN {} ELSE {d} \cup DirsBelow(c, parent[d])

\* relative_to raises ValueError when the file is not under root_path
IsUnder(c, d) == c = NoDir \/ c \in AncestorsOrSelf(d)

\* fnmatch.fnmatch(path_str, pattern) or fnmatch.fnmatch(path.name, pattern)
\* for a pattern '*' + ext: the name ends with ext, case kept
FnMatch(f, pattern) == f.ext = pattern.ext

\* should_exclude_path of SemanticConfig(c) for the file f of directory d
should_exclude_path(c, d, f) ==
    /\ get_exclude_patterns(c) # {}
    /\ IsUnder(c, d)
    /\ \E pattern \in get_exclude_patterns(c) :
          IF pattern.kind = "dir"
          THEN \/ \E x \in DirsBelow(c, d) : dname[x] = pattern.name
               \/ (f.ext = "" /\ Nm(f.dot, f.stem) = pattern.name)
          ELSE FnMatch(f, pattern)

\* the extensions of AnalysisOrchestrator._get_source_files
orchestrator_source_extensions ==
    { ".py", ".pyi", ".js", ".jsx", ".ts", ".tsx", ".mjs",
      ".java", ".kt", ".scala",
      ".c", ".cpp", ".cc", ".cxx", ".h", ".hpp", ".hxx",
      ".rs", ".go", ".rb", ".php", ".cs", ".swift",
      ".m", ".mm", ".r", ".R", ".sql",
      ".sh", ".bash", ".zsh", ".ps1",
      ".yaml", ".yml", ".json", ".toml",
      ".ini", ".cfg", ".conf",
      ".md", ".rst" }

\* AnalysisOrchestrator._get_source_files(d, SemanticConfig(c)), as a set
_get_source_files(d, c) ==
    IF ~readable[d] THEN {}
    ELSE {f \in files[d] :
             /\ Lower(f.ext) \in orchestrator_source_extensions
             /\ ~f.dot
             /\ ~should_exclude_path(c, d, f)}

\* the directory whose .semanticsrc a task loads:
\* directory.parent if directory.parent.exists() else directory
\* (the parent of a directory exists; for the root it lies outside the tree)
ConfigDir(d) == parent[d]

\* generate passes max_concurrent=15; the model runs fewer tasks than that
\* and bounds the semaphore so that tasks do wait for a permit
max_concurrent == 2

\* the text an LLM request can return
LLMTexts == {"t1"}
\* what a .semantic file can hold before the first command
OldTexts == {"t0"}

\* generate, up to the creation of the tasks: list(get_directories_to_process())
\* and one coroutine per directory
GenerateStart(f) ==
    /\ cmd = "idle" /\ runs < MaxRuns
    /\ cmd' = "generate" /\ runs' = runs + 1
    /\ force' = f
    /\ yielded' = get_directories_to_process
    /\ walked' = TRUE
    /\ pc' = [d \in Dirs |-> IF InSeq(get_directories_to_process, d)
                             THEN "queued" ELSE "none"]
    /\ permits' = max_concurrent
    /\ requests' = [d \in Dirs |-> 0]
    /\ existed' = [d \in Dirs |-> "unknown"]
    /\ orig' = semantic
    /\ directories_processed' = 0
    /\ prompt_files' = [d \in Dirs |-> {}]
    /\ exit_code' = NoExit
    /\ UNCHANGED << pureVars, fsVars, svcVars, verVars, semantic, available, last >>

\* the test that makes a task return without a request
SkipExisting_ForceOnly(d) == semantic[d] # NoFile /\ force

SkipExisting(d) == semantic[d] # NoFile /\ ~force

\* _process_single_directory(d) from the acquisition of the semaphore to its
\* first suspension: the existence test, the prompt, and either the return
\* (file exists), the exception of an unavailable client, or the request
\* handed to the executor
\* asyncio.Semaphore.locked(): no permit is left, `async with semaphore`
\* suspends the task
semaphore_locked_Never == FALSE

semaphore_locked == permits = 0

TaskStart(d) ==
    /\ cmd = "generate" /\ pc[d] = "queued" /\ ~semaphore_locked
    /\ existed' = [existed EXCEPT ![d] =
                      IF semantic[d] # NoFile THEN "yes" ELSE "no"]
    /\ IF SkipExisting(d)
       THEN /\ pc' = [pc EXCEPT ![d] = "skipped"]
            /\ UNCHANGED << permits, requests, prompt_files >>
       ELSE /\ prompt_files' = [prompt_files EXCEPT ![d] =
                                   _get_source_files(d, ConfigDir(d))]
            /\ IF ~available
               THEN /\ pc' = [pc EXCEPT ![d] = "failed"]
                    /\ UNCHANGED << permits, requests >>
               ELSE /\ pc' = [pc EXCEPT ![d] = "requesting"]
                    /\ permits' = permits - 1
                    /\ requests' = [requests EXCEPT ![d] = @ + 1]
    /\ UNCHANGED << pureVars, fsVars, svcVars, walkVars, verVars, runVars, force, orig,
                    directories_processed >>

\* asyncio.Semaphore.release() at the exit of `async with semaphore`: the
\* permit taken by the task is given back, on a return and on an exception
release_Lost == permits

release == permits + 1

\* the request returns text: the file is written, the semaphore released
LLMReturn(d, text) ==
    /\ cmd = "generate" /\ pc[d] = "requesting"
    /\ semantic' = [semantic EXCEPT ![d] = text]
    /\ pc' = [pc EXCEPT ![d] = "written"]
    /\ permits' = release
    /\ UNCHANGED << pureVars, fsVars, svcVars, walkVars, verVars, available, cmd, last, runs,
                    exit_code, force, requests, existed, orig,
                    directories_processed, prompt_files >>

\* the request raises: the exception is caught, the task returns False
\* what the handler of a failed request leaves in d/.semantic: the file is
\* opened for writing only after the request has returned
FileAfterError_Truncated(d) == ""

FileAfterError(d) == semantic[d]

LLMRaise(d) ==
    /\ cmd = "generate" /\ pc[d] = "requesting"
    /\ semantic' = [semantic EXCEPT ![d] = FileAfterError(d)]
    /\ pc' = [pc EXCEPT ![d] = "failed"]
    /\ permits' = release
    /\ UNCHANGED << pureVars, fsVars, svcVars, walkVars, verVars, available, cmd, last, runs,
                    exit_code, force, requests, existed, orig,
                    directories_processed, prompt_files >>

\* the value a completed task returns: True after the write of the file,
\* False on the skip and in the exception handler
success_AlsoSkipped(d) == pc[d] \in {"written", "skipped"}

success(d) == pc[d] = "written"

\* every task has completed: the count of the tasks that returned True
GenerateFinish ==
    /\ cmd = "generate"
    /\ \A d \in Dirs : pc[d] \notin {"queued", "requesting"}
    /\ directories_processed' = Cardinality({d \in Dirs : success(d)})
    /\ cmd' = "idle" /\ last' = "generate"
    /\ exit_code' = 0
    /\ UNCHANGED << pureVars, fsVars, svcVars, walkVars, verVars, semantic, available, runs,
                    force, pc, permits, requests, existed, orig, prompt_files >>

VerifyStart ==
    /\ cmd = "idle" /\ runs < MaxRuns
    /\ cmd' = "verify" /\ runs' = runs + 1
    /\ yielded' = get_directories_to_process
    /\ walked' = TRUE
    /\ vidx' = 1
    /\ out_of_sync_files' = << >>
    /\ directories_checked' = 0
    /\ exit_code' = NoExit
    /\ UNCHANGED << pureVars, fsVars, svcVars, genVars, semantic, available, last >>

\* what verify does with a directory that has no .semantic file
MissingFile_NotReported(d) == out_of_sync_files

MissingFile(d) == Append(out_of_sync_files, d)

\* one iteration of verify's loop.  A missing file is reported and the loop
\* continues.  For an existing file verify calls
\* generator.generate_semantic_content, which SummaryGenerator does not
\* define: the AttributeError is caught by `except Exception` and verify
\* exits with status 1.
VerifyDir ==
    /\ cmd = "verify" /\ vidx <= Len(yielded)
    /\ LET d == yielded[vidx] IN
       IF semantic[d] = NoFile
       THEN /\ out_of_sync_files' = MissingFile(d)
            /\ vidx' = vidx + 1
            /\ UNCHANGED << cmd, last, exit_code >>
       ELSE /\ exit_code' = 1
            /\ cmd' = "idle" /\ last' = "verify"
            /\ UNCHANGED << out_of_sync_files, vidx >>
    /\ UNCHANGED << pureVars, fsVars, svcVars, walkVars, genVars, semantic, available, runs,
                    directories_checked >>

\* the report after the loop
VerifyReport ==
    /\ cmd = "verify" /\ vidx > Len(yielded)
    /\ exit_code' = IF out_of_sync_files # << >> THEN 1 ELSE 0
    /\ cmd' = "idle" /\ last' = "verify"
    /\ UNCHANGED << pureVars, fsVars, svcVars, walkVars, genVars, verVars, semantic, available,
                    runs >>

Init ==
    /\ parent \in [Dirs -> Dirs \cup {NoDir}]
    /\ dname \in [Dirs -> {Nm(FALSE, "lib"), Nm(FALSE, "node_modules")}]
    /\ TreeOK(parent, dname)
    /\ files \in [Dirs -> {{}, {Fl(FALSE, "a", ".py"), Fl(FALSE, "notes", ".txt")}}]
    /\ readable = [d \in Dirs |-> TRUE]
    /\ semanticsrc = [d \in Dirs |-> {}]
    /\ semantic \in [Dirs -> {NoFile} \cup OldTexts]
    /\ available \in BOOLEAN
    /\ yielded = << >>
    /\ walked = FALSE
    /\ NothingRun /\ ServicesIdle
    /\ NothingCompared /\ NothingDeduplicated /\ NothingInferred
    /\ NothingAggregated

Next ==
    \/ \E f \in BOOLEAN : GenerateStart(f)
    \/ \E d \in Dirs : TaskStart(d)
    \/ \E d \in Dirs, text \in LLMTexts : LLMReturn(d, text)
    \/ \E d \in Dirs : LLMRaise(d)
    \/ GenerateFinish
    \/ VerifyStart
    \/ VerifyDir
    \/ VerifyReport

Spec == Init /\ [][Next]_vars

\* The scheduling of a run: the event loop resumes a task that waits for the
\* semaphore as soon as a permit is free, every request handed to the
\* executor returns or raises, and the loop over as_completed ends once all
\* tasks are done.  Nothing forces a command to be started.
Fairness ==
    /\ WF_vars(\E d \in Dirs : TaskStart(d))
    /\ \A d \in Dirs :
          WF_vars((\E text \in LLMTexts : LLMReturn(d, text)) \/ LLMRaise(d))
    /\ WF_vars(GenerateFinish)

FairSpec == Init /\ [][Next]_vars /\ Fairness

(***************************************************************************)
(* Properties of generate and verify.                                      *)
(***************************************************************************)
\* C3: a directory whose output file existed when its task ran gets, without
\* --force, no LLM request and keeps its file content, whatever the other
\* tasks do meanwhile.
C3_ExistingFileUntouched ==
    \A d \in Dirs :
        (existed[d] = "yes" /\ ~force)
            => (requests[d] = 0 /\ semantic[d] = orig[d])

C3_Witness ==
    \E d, e \in Dirs :
        /\ d # e /\ ~force
        /\ existed[d] = "yes" /\ pc[d] = "skipped"
        /\ orig[d] # NoFile /\ semantic[d] = orig[d] /\ requests[d] = 0
        /\ pc[e] = "written" /\ semantic[e] # orig[e]

\* the last generate wrote the output file of every directory of the traversal
GeneratedAll ==
    /\ yielded # << >>
    /\ \A d \in Dirs : InSeq(yielded, d) => pc[d] = "written"

VerifyDone == cmd = "idle" /\ last = "verify"

\* C4: after generate has written the output file of every qualifying
\* directory (and no source file has changed), verify exits with status 0.
C4_FreshTreeVerifies ==
    (VerifyDone /\ GeneratedAll) => exit_code = 0

\* C7: verify exits non-zero when a directory of the traversal has no
\* .semantic file, and exits 0 when the traversal yields no directory.
C7_VerifyExit ==
    VerifyDone =>
        /\ (\E d \in Dirs : InSeq(yielded, d) /\ semantic[d] = NoFile)
               => exit_code # 0
        /\ (yielded = << >>) => exit_code = 0

C7_Witness ==
    /\ VerifyDone
    /\ yielded # << >>
    /\ \A d \in Dirs : InSeq(yielded, d) => semantic[d] = NoFile
    /\ exit_code = 1

\* the tasks that hold a permit of the semaphore: the ones whose request is
\* in flight
InFlight == {d \in Dirs : pc[d] = "requesting"}

GenerateDone == cmd = "idle" /\ last = "generate"

\* C11: in every reachable state at most max_concurrent directory tasks are
\* between acquiring and releasing the semaphore, so at most max_concurrent
\* LLM requests are in flight at once.
C11_BoundedConcurrency ==
    /\ Cardinality(InFlight) <= max_concurrent
    /\ permits >= 0
    /\ cmd = "generate" => permits + Cardinality(InFlight) = max_concurrent

C11_Witness ==
    /\ cmd = "generate"
    /\ Cardinality(InFlight) = max_concurrent
    /\ permits = 0
    /\ \E d \in Dirs : pc[d] = "queued"

\* C12: a directory whose LLM request failed (the request raised or the
\* client is unavailable) keeps its output file as it was, absent or not;
\* the run goes on (a waiting task can start, a request is in flight or the
\* run can finish) and ends with status 0 with every directory of the
\* traversal processed: written, skipped or failed on its own.
C12_FailureIsContained ==
    /\ \A d \in Dirs : pc[d] = "failed" => semantic[d] = orig[d]
    /\ cmd = "generate" =>
          \/ InFlight # {}
          \/ \E d \in Dirs : pc[d] = "queued" /\ permits > 0
          \/ \A d \in Dirs : pc[d] \notin {"queued", "requesting"}
    /\ GenerateDone =>
          /\ exit_code = 0
          /\ \A d \in Dirs :
                InSeq(yielded, d) => pc[d] \in {"written", "skipped", "failed"}
          /\ \A d \in Dirs : pc[d] = "written" => semantic[d] \in LLMTexts
          /\ directories_processed = Cardinality({d \in Dirs : pc[d] = "written"})

C12_Witness ==
    /\ GenerateDone
    /\ \E d, e \in Dirs :
          /\ pc[d] = "failed" /\ requests[d] = 1
          /\ orig[d] # NoFile /\ semantic[d] = orig[d]
          /\ pc[e] = "written" /\ semantic[e] \in LLMTexts

\* the outcomes of a task of _process_single_directory
Outcomes == {"skipped", "written", "failed"}

\* C21: if every request returns or raises, a run of generate ends: every
\* directory yielded by the traversal has its task completed as skipped,
\* written or failed, and all permits of the semaphore are free again
C21_Terminates ==
    (cmd = "generate") ~>
        (/\ GenerateDone
         /\ permits = max_concurrent
         /\ \A d \in Dirs : InSeq(yielded, d) => pc[d] \in Outcomes)

\* a finished run in which the three outcomes all happened
C21_Witness ==
    /\ GenerateDone
    /\ permits = max_concurrent
    /\ \A d \in Dirs : InSeq(yielded, d) /\ pc[d] \in Outcomes
    /\ \A o \in Outcomes : \E d \in Dirs : pc[d] = o

\* the directories whose file was written by the run: a request was made
\* for them and it returned
WrittenInRun == {d \in Dirs : InSeq(yielded, d) /\ pc[d] = "written"}

MaxLines == 2

Whitespace == {"SP", "NL"}

\* str.strip()
RECURSIVE LStrip(_)
LStrip(s) ==
    IF s # << >> /\ Head(s) \in Whitespace THEN LStrip(Tail(s)) ELSE s
RECURSIVE RStrip(_)
RStrip(s) ==
    IF s # << >> /\ s[Len(s)] \in Whitespace
    THEN RStrip(SubSeq(s, 1, Len(s) - 1)) ELSE s
Strip(s) == RStrip(LStrip(s))

\* str.split('\n'): the pieces between the newlines, [''] for the empty text
RECURSIVE SplitLines(_)
SplitLines(s) ==
    IF \A i \in DOMAIN s : s[i] # "NL" THEN << s >>
    ELSE LET k == CHOOSE i \in DOMAIN s :
                     s[i] = "NL" /\ \A j \in 1 .. (i - 1) : s[j] # "NL"
         IN  << SubSeq(s, 1, k - 1) >> \o SplitLines(SubSeq(s, k + 1, Len(s)))

\* '\n'.join(lines)
RECURSIVE JoinLines(_)
JoinLines(ls) ==
    IF ls = << >> THEN << >>
    ELSE IF Len(ls) = 1 THEN ls[1]
    ELSE ls[1] \o << "NL" >> \o JoinLines(Tail(ls))

\* line.startswith('- last_generated_utc:') or line.startswith('- commit_hash:')
IsMetadataLine_TimestampOnly(line) == line # << >> /\ Head(line) = "L"

IsMetadataLine(line) == line # << >> /\ Head(line) \in {"L", "H"}

RECURSIVE _filter_metadata_lines(_)
_filter_metadata_lines(lines) ==
    IF lines = << >> THEN << >>
    ELSE LET line == Strip(Head(lines)) IN
         (IF IsMetadataLine(line) THEN << >> ELSE << line >>)
             \o _filter_metadata_lines(Tail(lines))

_content_matches_LengthOnly(a, e) ==
    Len(_filter_metadata_lines(SplitLines(Strip(a))))
        = Len(_filter_metadata_lines(SplitLines(Strip(e))))

_content_matches(a, e) ==
    _filter_metadata_lines(SplitLines(Strip(a)))
        = _filter_metadata_lines(SplitLines(Strip(e)))

\* the lines the texts of the model are made of
LineSet ==
    { << >>, << "a" >>, << "b" >>, << "SP", "a" >>,
      << "H", "a" >>, << "H", "b" >>, << "SP", "H", "a" >>, << "L", "b" >> }

LineSeqs == UNION { [1 .. n -> LineSet] : n \in 1 .. MaxLines }
Texts == { JoinLines(ls) : ls \in LineSeqs }

InitMatch ==
    /\ actual \in Texts
    /\ expected \in Texts
    /\ match_result = "none"
    /\ mutated = FALSE
    /\ mut_old = << >> /\ mut_new = << >>
    /\ NoTree /\ NothingRun /\ ServicesIdle /\ NothingDeduplicated /\ NothingInferred
    /\ NothingAggregated

\* verify's comparison of the committed text with the regenerated one
Compare ==
    /\ match_result = "none"
    /\ match_result' = IF _content_matches(actual, expected) THEN "yes" ELSE "no"
    /\ UNCHANGED << actual, expected, mutated, mut_old, mut_new >>
    /\ UNCHANGED << fsVars, svcVars, walkVars, genVars, verVars, runVars, dedupVars,
                    infer_log >>

\* after a successful comparison somebody edits one line of the committed
\* text that is not a metadata line; the next verify compares again
MutateLine(i, new) ==
    /\ match_result = "yes" /\ ~mutated
    /\ LET ls == SplitLines(actual) IN
       /\ i \in DOMAIN ls
       /\ ~IsMetadataLine(ls[i])
       /\ new # ls[i]
       /\ actual' = JoinLines([ls EXCEPT ![i] = new])
       /\ mut_old' = ls[i]
    /\ mut_new' = new
    /\ mutated' = TRUE
    /\ match_result' = "none"
    /\ UNCHANGED expected
    /\ UNCHANGED << fsVars, svcVars, walkVars, genVars, verVars, runVars, dedupVars,
                    infer_log >>

NextMatch ==
    \/ Compare
    \/ \E i \in 1 .. MaxLines, new \in LineSet : MutateLine(i, new)

SpecMatch == InitMatch /\ [][NextMatch]_vars

SameExceptMetadataValues(a, e) ==
    LET la == SplitLines(a)
        le == SplitLines(e)
    IN  /\ Len(la) = Len(le)
        /\ \A i \in DOMAIN la :
              \/ la[i] = le[i]
              \/ /\ la[i] # << >> /\ le[i] # << >>
                 /\ Head(la[i]) \in {"L", "H"}
                 /\ Head(la[i]) = Head(le[i])

\* C6: _content_matches holds of two texts that differ only in the values of
\* their metadata lines; it is reflexive and symmetric.
C6_MetadataIgnored ==
    (match_result # "none") =>
        /\ SameExceptMetadataValues(actual, expected) => match_result = "yes"
        /\ _content_matches(actual, actual)
        /\ (match_result = "yes") = _content_matches(expected, actual)

C6_Witness ==
    /\ ~mutated /\ match_result = "yes"
    /\ actual # expected
    /\ SameExceptMetadataValues(actual, expected)
    /\ \E i \in DOMAIN SplitLines(actual) :
          /\ SplitLines(actual)[i] # SplitLines(expected)[i]
          /\ Head(SplitLines(actual)[i]) = "H"
    /\ \E i \in DOMAIN SplitLines(actual) : ~IsMetadataLine(SplitLines(actual)[i])

(***************************************************************************)
(* LLMClient._deduplicate_apis (services/llm_client.py)                    *)
(*                                                                         *)
(* An API entry is a record of its name, its start_line and its            *)
(* semantic_description, a sequence of characters.                         *)
(***************************************************************************)
MaxApis == 3

ApiNames == {"f", "g"}
StartLines == {8, 12, 19}
Descriptions == { << >>, << "x" >>, << "y" >>, << "x", "y" >> }
ApiInfos == [name : ApiNames, start_line : StartLines,
             semantic_description : Descriptions]

\* key = f"{api.name}_{api.start_line // 10}": the name and the 10-line block;
\* two keys are the same string exactly when name and block are the same
ApiKey(api) == << api.name, api.start_line \div 10 >>

\* len(api.semantic_description) > len(existing_api.semantic_description)
HasBetterDescription_OrEqual(api, existing_api) ==
    Len(api.semantic_description) >= Len(existing_api.semantic_description)

HasBetterDescription(api, existing_api) ==
    Len(api.semantic_description) > Len(existing_api.semantic_description)

\* one iteration of the loop over apis; st is the pair of seen_apis and
\* unique_apis
DedupStep(st, api) ==
    LET key == ApiKey(api) IN
    IF key \notin DOMAIN st.seen_apis
    THEN [seen_apis |-> (key :> api) @@ st.seen_apis,
          unique_apis |-> Append(st.unique_apis, api)]
    ELSE LET existing_api == st.seen_apis[key]
             Other(a) == a # existing_api
         IN  IF HasBetterDescription(api, existing_api)
             THEN [seen_apis |-> (key :> api) @@ st.seen_apis,
                   unique_apis |-> Append(SelectSeq(st.unique_apis, Other), api)]
             ELSE st

RECURSIVE DedupLoop(_, _)
DedupLoop(st, apis) ==
    IF apis = << >> THEN st
    ELSE DedupLoop(DedupStep(st, Head(apis)), Tail(apis))

_deduplicate_apis(apis) ==
    DedupLoop([seen_apis |-> << >>, unique_apis |-> << >>], apis).unique_apis

InitDedup ==
    /\ apis_in \in UNION { [1 .. n -> ApiInfos] : n \in 0 .. MaxApis }
    /\ apis_out = << >>
    /\ dedup_done = FALSE
    /\ NoTree /\ NothingRun /\ ServicesIdle /\ NothingCompared /\ NothingInferred
    /\ NothingAggregated

Deduplicate ==
    /\ ~dedup_done
    /\ apis_out' = _deduplicate_apis(apis_in)
    /\ dedup_done' = TRUE
    /\ UNCHANGED apis_in
    /\ UNCHANGED << fsVars, svcVars, walkVars, genVars, verVars, runVars, matchVars,
                    infer_log >>

NextDedup == Deduplicate

SpecDedup == InitDedup /\ [][NextDedup]_vars

\* the (name, bucket) pair of an entry
NameAndBucket(api) == << api.name, api.start_line \div 10 >>

\* the position in the input of the entry that has to be kept for the pair
\* k: the earliest among the entries of k with the longest description
KeptIndex(k) ==
    LET idx == {i \in DOMAIN apis_in : NameAndBucket(apis_in[i]) = k}
        longest == {i \in idx : \A j \in idx :
                       Len(apis_in[j].semantic_description)
                           <= Len(apis_in[i].semantic_description)}
    IN  CHOOSE i \in longest : \A j \in longest : i <= j

\* C10: the result of _deduplicate_apis has no two entries with the same
\* name and the same start_line // 10, still has an entry for every
\* (name, bucket) pair of the input, and the entry kept for a pair is the
\* earliest input entry among those of the pair with the longest description.
C10_Deduplicated ==
    dedup_done =>
        /\ \A i, j \in DOMAIN apis_out :
              i # j => NameAndBucket(apis_out[i]) # NameAndBucket(apis_out[j])
        /\ \A i \in DOMAIN apis_in : \E j \in DOMAIN apis_out :
              NameAndBucket(apis_out[j]) = NameAndBucket(apis_in[i])
        /\ \A j \in DOMAIN apis_out :
              apis_out[j] = apis_in[KeptIndex(NameAndBucket(apis_out[j]))]

C10_Witness ==
    /\ dedup_done
    /\ Len(apis_in) = 3
    /\ NameAndBucket(apis_in[1]) = NameAndBucket(apis_in[2])
    /\ NameAndBucket(apis_in[2]) = NameAndBucket(apis_in[3])
    /\ Len(apis_in[1].semantic_description) < Len(apis_in[2].semantic_description)
    /\ Len(apis_in[2].semantic_description) = Len(apis_in[3].semantic_description)
    /\ apis_in[2] # apis_in[3]
    /\ apis_out = << apis_in[2] >>

(***************************************************************************)
(* Provider inference (tests/test_provider_inference.py)                   *)
(***************************************************************************)
MaxCalls == 2

None == "None"

\* the members of the enumeration LLMProvider
LLMProvider == {"openai", "anthropic"}

\* the model table the tests import from services.llm_usage_metrics; that
\* module defines no such table, the entries are those the tests name
AVAILABLE_MODELS ==
    [ openai |-> [ models |-> { "gpt-4", "gpt-4-turbo", "gpt-4o", "gpt-4o-mini",
                                "gpt-3.5-turbo", "gpt-5", "gpt-5-mini",
                                "gpt-5-nano" },
                   aliases |-> {} ],
      anthropic |-> [ models |-> { "claude-sonnet-4-20250514",
                                   "claude-opus-4-1-20250805" },
                      aliases |-> { "sonnet", "opus" } ],
      google |-> [ models |-> { "gemini-2.5-pro", "gemini-2.5-flash" },
                   aliases |-> {} ] ]

EntriesOf(p) == AVAILABLE_MODELS[p].models \cup AVAILABLE_MODELS[p].aliases

\* the function the tests import from codebase_summarizer.main, which does
\* not define it: the provider of LLMProvider that lists the model, else None
_infer_provider_from_model(m) ==
    IF \E p \in LLMProvider : m \in EntriesOf(p)
    THEN CHOOSE p \in LLMProvider : m \in EntriesOf(p)
    ELSE None

\* the strings the tests call the function with
ModelStrings ==
    EntriesOf("openai") \cup EntriesOf("anthropic") \cup EntriesOf("google")
        \cup { "", "unknown-model", "random-string", "GPT-4", "SONNET",
               "gpt", "claude", "gemini", "sonnet-extra" }

InitInfer ==
    /\ infer_log = << >>
    /\ NoTree /\ NothingRun /\ ServicesIdle /\ NothingCompared /\ NothingDeduplicated
    /\ NothingAggregated

Infer(m) ==
    /\ Len(infer_log) < MaxCalls
    /\ infer_log' = Append(infer_log,
                           [model |-> m, provider |-> _infer_provider_from_model(m)])
    /\ UNCHANGED << fsVars, svcVars, walkVars, genVars, verVars, runVars, matchVars,
                    dedupVars >>

NextInfer == \E m \in ModelStrings : Infer(m)

SpecInfer == InitInfer /\ [][NextInfer]_vars

\* C9: _infer_provider_from_model(m) is provider P exactly when m is one of
\* P's models or alias keys, for OpenAI, Anthropic and Google, and None for
\* every other string.
C9_InferredProvider ==
    \A i \in DOMAIN infer_log :
        LET m == infer_log[i].model
            r == infer_log[i].provider
        IN  /\ \A p \in {"openai", "anthropic", "google"} :
                  (r = p) <=> (m \in EntriesOf(p))
            /\ (r = None) <=>
                  (\A p \in {"openai", "anthropic", "google"} : m \notin EntriesOf(p))

(***************************************************************************)
(* LLMUsageCollector (services/llm_usage_metrics.py) and the two request   *)
(* functions of LLMClient that feed it (services/llm_client.py).           *)
(*                                                                         *)
(* Costs are kept in nano-dollars so that the table has integer entries:   *)
(* 0.03 dollars per 1K tokens is 30000 nano-dollars per token.  A request  *)
(* of kind "sync" is _make_llm_request, run by the main thread; one of     *)
(* kind "async" is the closure _sync_request of _make_llm_request_async,   *)
(* run by a thread of the default executor.  `x += v` on an attribute is   *)
(* a load followed by a store, and threads can interleave between them.    *)
(***************************************************************************)
LLMProviderOPENAI == "openai"

\* COST_PER_1K_TOKENS, per token and in nano-dollars
COST_PER_1K_TOKENS ==
    [ openai |->
        [ gpt4 |-> [input |-> 30000, output |-> 60000],
          gpt4turbo |-> [input |-> 10000, output |-> 30000],
          gpt35turbo |-> [input |-> 1000, output |-> 2000] ],
      anthropic |->
        [ claude3opus |-> [input |-> 15000, output |-> 75000],
          claude3sonnet |-> [input |-> 3000, output |-> 15000],
          claude3haiku |-> [input |-> 250, output |-> 1250] ] ]

\* the key of a model name in the table ("gpt-4" is not a record label)
ModelKey(model) ==
    CASE model = "gpt-4" -> "gpt4"
      [] model = "gpt-4-turbo" -> "gpt4turbo"
      [] model = "gpt-3.5-turbo" -> "gpt35turbo"
      [] model = "claude-3-opus" -> "claude3opus"
      [] model = "claude-3-sonnet" -> "claude3sonnet"
      [] model = "claude-3-haiku" -> "claude3haiku"
      [] OTHER -> model

estimate_cost(provider, model, input_tokens, output_tokens) ==
    IF provider \notin DOMAIN COST_PER_1K_TOKENS THEN 0
    ELSE LET provider_costs == COST_PER_1K_TOKENS[provider] IN
         IF ModelKey(model) \notin DOMAIN provider_costs THEN 0
         ELSE LET model_costs == provider_costs[ModelKey(model)] IN
              input_tokens * model_costs.input
                  + output_tokens * model_costs.output

\* the summary computed from the running totals
get_session_summary_InputOnly ==
    [ total_calls |-> _total_calls,
      total_input_tokens |-> _total_input_tokens,
      total_output_tokens |-> _total_output_tokens,
      total_tokens |-> _total_input_tokens,
      total_estimated_cost |-> _total_cost,
      average_cost_per_call |->
          IF _total_calls > 0 THEN _total_cost \div _total_calls ELSE 0 ]

get_session_summary ==
    [ total_calls |-> _total_calls,
      total_input_tokens |-> _total_input_tokens,
      total_output_tokens |-> _total_output_tokens,
      total_tokens |-> _total_input_tokens + _total_output_tokens,
      total_estimated_cost |-> _total_cost,
      average_cost_per_call |->
          IF _total_calls > 0 THEN _total_cost \div _total_calls ELSE 0 ]

\* the values the model draws from
Models == {"gpt-5-nano", "gpt-4"}
InputTokens == {1, 3}
OutputTokens == {2}

\* the positions of a thread inside log_usage: the load and the store of
\* each of the four `+=` of lines 147-150
LoadPcs == {"load_cost", "load_calls", "load_input", "load_output"}
StorePcs == {"store_cost", "store_calls", "store_input", "store_output"}
InLogUsage(r) == upc[r] \in LoadPcs \cup StorePcs
Active(r) == upc[r] \notin {"new", "returned", "raised"}

\* the main thread is inside _make_llm_request: it runs no second request
\* and, being the thread of the event loop, starts no executor job
MainBusy == \E r \in Reqs : ukind[r] = "sync" /\ Active(r)

usageRest == << _total_cost, _total_calls, _total_input_tokens,
                _total_output_tokens >>
treeRest == << fsVars, walkVars, genVars, verVars, semantic, cmd, last, runs,
               exit_code, pureVars, tocVars, chunkVars, aggVars >>

\* _make_llm_request / _make_llm_request_async up to the API call: an
\* unavailable client raises at once.  Requests are numbered in the order
\* in which they start.
RequestStart(r, kind, model) ==
    /\ upc[r] = "new" /\ ~MainBusy
    /\ \A q \in Reqs : q < r => upc[q] # "new"
    /\ ukind' = [ukind EXCEPT ![r] = kind]
    /\ umodel' = [umodel EXCEPT ![r] = model]
    /\ upc' = [upc EXCEPT ![r] = IF available THEN "create" ELSE "raised"]
    /\ UNCHANGED << utok, ucost, tmp, entries, usageRest, usage_log, overlapped,
                    available, treeRest >>

\* responses.create raises: the exception leaves the function
CreateRaises(r) ==
    /\ upc[r] = "create"
    /\ upc' = [upc EXCEPT ![r] = "raised"]
    /\ UNCHANGED << ukind, umodel, utok, ucost, tmp, entries, usageRest,
                    usage_log, overlapped, available, treeRest >>

\* where a request goes once responses.create has returned
AfterResponse_SkipsCollector == "returned"

AfterResponse == "load_cost"

\* responses.create returns: log_usage is called with the usage of the
\* response and computes its local values (lines 131-144)
CreateReturns(r, i, o) ==
    /\ upc[r] = "create"
    /\ utok' = [utok EXCEPT ![r] = [input_tokens |-> i, output_tokens |-> o]]
    /\ ucost' = [ucost EXCEPT ![r] =
                    estimate_cost(LLMProviderOPENAI, umodel[r], i, o)]
    /\ upc' = [upc EXCEPT ![r] = AfterResponse]
    /\ overlapped' = (overlapped \/ \E q \in Reqs \ {r} : InLogUsage(q))
    /\ UNCHANGED << ukind, umodel, tmp, entries, usageRest, usage_log,
                    available, treeRest >>

\* the first half of a `+=`: the thread reads the total
Load(r) ==
    /\ upc[r] \in LoadPcs
    /\ tmp' = [tmp EXCEPT ![r] =
                  CASE upc[r] = "load_cost" -> _total_cost
                    [] upc[r] = "load_calls" -> _total_calls
                    [] upc[r] = "load_input" -> _total_input_tokens
                    [] upc[r] = "load_output" -> _total_output_tokens]
    /\ upc' = [upc EXCEPT ![r] =
                  CASE upc[r] = "load_cost" -> "store_cost"
                    [] upc[r] = "load_calls" -> "store_calls"
                    [] upc[r] = "load_input" -> "store_input"
                    [] upc[r] = "load_output" -> "store_output"]
    /\ UNCHANGED << ukind, umodel, utok, ucost, entries, usageRest, usage_log,
                    overlapped, available, treeRest >>

\* the second half: the thread writes what it read plus its own value.
\* After the last store log_usage returns its metrics and the request
\* returns response.output_text.
Store(r) ==
    /\ upc[r] \in StorePcs
    /\ _total_cost' =
          IF upc[r] = "store_cost" THEN tmp[r] + ucost[r] ELSE _total_cost
    /\ _total_calls' =
          IF upc[r] = "store_calls" THEN tmp[r] + 1 ELSE _total_calls
    /\ _total_input_tokens' =
          IF upc[r] = "store_input" THEN tmp[r] + utok[r].input_tokens
          ELSE _total_input_tokens
    /\ _total_output_tokens' =
          IF upc[r] = "store_output" THEN tmp[r] + utok[r].output_tokens
          ELSE _total_output_tokens
    /\ upc' = [upc EXCEPT ![r] =
                  CASE upc[r] = "store_cost" -> "load_calls"
                    [] upc[r] = "store_calls" -> "load_input"
                    [] upc[r] = "store_input" -> "load_output"
                    [] upc[r] = "store_output" -> "returned"]
    /\ IF upc[r] = "store_output"
       THEN /\ entries' = [entries EXCEPT ![r] = @ + 1]
            /\ usage_log' = Append(usage_log,
                                   [ input_tokens |-> utok[r].input_tokens,
                                     output_tokens |-> utok[r].output_tokens,
                                     total_tokens |-> utok[r].input_tokens
                                                      + utok[r].output_tokens,
                                     estimated_cost |-> ucost[r] ])
       ELSE UNCHANGED << entries, usage_log >>
    /\ UNCHANGED << ukind, umodel, utok, ucost, tmp, overlapped, available,
                    treeRest >>

InitUsage ==
    /\ parent = [d \in Dirs |-> NoDir]
    /\ dname = [d \in Dirs |-> Nm(FALSE, "lib")]
    /\ files = [d \in Dirs |-> {}]
    /\ readable = [d \in Dirs |-> TRUE]
    /\ semanticsrc = [d \in Dirs |-> {}]
    /\ semantic = [d \in Dirs |-> NoFile]
    /\ available \in BOOLEAN
    /\ yielded = << >>
    /\ walked = FALSE
    /\ NothingRun /\ NothingLogged /\ NothingSerialized /\ NothingChunked
    /\ NothingCompared /\ NothingDeduplicated /\ NothingInferred
    /\ NothingAggregated

NextUsage ==
    \/ \E r \in Reqs, kind \in {"sync", "async"}, model \in Models :
          RequestStart(r, kind, model)
    \/ \E r \in Reqs : CreateRaises(r)
    \/ \E r \in Reqs, i \in InputTokens, o \in OutputTokens : CreateReturns(r, i, o)
    \/ \E r \in Reqs : Load(r)
    \/ \E r \in Reqs : Store(r)

SpecUsage == InitUsage /\ [][NextUsage]_vars

(***************************************************************************)
(* Properties of the collector.                                            *)
(***************************************************************************)
RECURSIVE SumInput(_)
SumInput(log) ==
    IF log = << >> THEN 0 ELSE Head(log).input_tokens + SumInput(Tail(log))

RECURSIVE SumOutput(_)
SumOutput(log) ==
    IF log = << >> THEN 0 ELSE Head(log).output_tokens + SumOutput(Tail(log))

\* no thread is inside log_usage
Quiescent == \A r \in Reqs : ~InLogUsage(r)

\* C13: after log_usage calls that did not overlap, the summary reports
\* total_calls equal to the number of calls, the token totals equal to the
\* sums of the logged values and total_tokens equal to their sum; with no
\* call every total and average_cost_per_call are 0.
C13_SummaryTotals ==
    (Quiescent /\ ~overlapped) =>
        LET summary == get_session_summary IN
        /\ summary.total_calls = Len(usage_log)
        /\ summary.total_input_tokens = SumInput(usage_log)
        /\ summary.total_output_tokens = SumOutput(usage_log)
        /\ summary.total_tokens
              = summary.total_input_tokens + summary.total_output_tokens
        /\ usage_log = << >> =>
              /\ summary.total_calls = 0 /\ summary.total_tokens = 0
              /\ summary.total_input_tokens = 0
              /\ summary.total_output_tokens = 0
              /\ summary.total_estimated_cost = 0
              /\ summary.average_cost_per_call = 0

C13_Witness ==
    /\ Quiescent /\ ~overlapped
    /\ Len(usage_log) = 2
    /\ usage_log[1].input_tokens # usage_log[2].input_tokens
    /\ get_session_summary.total_calls = 2
    /\ get_session_summary.total_tokens
          = SumInput(usage_log) + SumOutput(usage_log)

\* C14: a request that has returned its response text has made exactly one
\* log_usage call, completed before the return; a request that raised has
\* made none.
C14_OneEntryPerResponse ==
    \A r \in Reqs :
        /\ upc[r] = "returned" => entries[r] = 1
        /\ upc[r] = "raised" => entries[r] = 0
        /\ upc[r] \in {"new", "create"} => entries[r] = 0

C14_Witness ==
    \E r, q \in Reqs :
        /\ ukind[r] = "sync" /\ upc[r] = "returned" /\ entries[r] = 1
        /\ ukind[q] = "async" /\ upc[q] = "raised" /\ entries[q] = 0
        /\ available

\* every request has returned or raised
AllCompleted == \A r \in Reqs : upc[r] \in {"returned", "raised"}

\* C20: once the concurrent log_usage calls have completed, total_calls is
\* their number and the token totals are the sums over all of them.
C20_NoLostUpdate ==
    AllCompleted =>
        /\ _total_calls = Len(usage_log)
        /\ _total_input_tokens = SumInput(usage_log)
        /\ _total_output_tokens = SumOutput(usage_log)

(***************************************************************************)
(* SummaryGenerator (services/summary_generator.py)                        *)
(*                                                                         *)
(* A string is a sequence of tokens as in _content_matches: "NL" is the    *)
(* newline, every other token stands for characters without a newline.     *)
(* The empty string is the empty sequence.                                 *)
(***************************************************************************)
\* the bound on the number of skillsets and on the number of APIs
MaxItems == 2

\* Path(source_file).name
PathName(source_file) ==
    CASE source_file = "src/a.py" -> "a.py"
      [] source_file = "src/b.py" -> "b.py"
      [] OTHER -> source_file

\* Python's order on the strings that are sorted
StringOrder == << ".js", ".py", "Django", "Python", "REST", "src/a.py", "src/b.py" >>
StringRank(tok) == CHOOSE i \in 1 .. Len(StringOrder) : StringOrder[i] = tok

\* sorted(): a stable insertion sort of records by their field `key`
RECURSIVE InsertByKey(_, _)
InsertByKey(x, s) ==
    IF s = << >> THEN << x >>
    ELSE IF x.key < Head(s).key THEN << x >> \o s
    ELSE << Head(s) >> \o InsertByKey(x, Tail(s))

RECURSIVE SortByKey(_)
SortByKey(s) ==
    IF s = << >> THEN << >>
    ELSE InsertByKey(s[Len(s)], SortByKey(SubSeq(s, 1, Len(s) - 1)))

\* the elements of a set of records, sorted by `key` (the keys are distinct)
RECURSIVE SortedSet(_)
SortedSet(S) ==
    IF S = {} THEN << >>
    ELSE LET m == CHOOSE x \in S : \A y \in S : x.key <= y.key
         IN  << m >> \o SortedSet(S \ {m})

\* _generate_file_types_summary; file_types is a set of pairs << ext, count >>
_generate_file_types_summary(file_types) ==
    IF file_types = {} THEN << >>
    ELSE LET items == SortedSet({[key |-> StringRank(p[1]), val |-> p] :
                                     p \in file_types})
         IN  JoinLines([i \in DOMAIN items |->
                 << "- ", items[i].val[1], ": ", ToString(items[i].val[2]) >>])

\* _generate_skillsets_summary; a skillset is a string, sorted by its text
_generate_skillsets_summary(skillsets) ==
    IF skillsets = << >> THEN << >>
    ELSE LET sorted == SortByKey([i \in DOMAIN skillsets |->
                            [key |-> StringRank(Head(skillsets[i])),
                             val |-> skillsets[i]]])
         IN  JoinLines([i \in DOMAIN sorted |-> << "- " >> \o sorted[i].val])

\* the lines of one file of _generate_apis_summary: its header, its APIs by
\* start_line and an empty line ("BQ" is the backquote)
ApiLine(api) ==
    << "- **", api.name, "** (lines ", ToString(api.start_line), "-",
       ToString(api.end_line), "): " >> \o api.semantic_description

SelectFile(apis, source_file) == SelectSeq(apis, LAMBDA a : a.source_file = source_file)

FileBlock(apis, source_file) ==
    LET mine == SelectFile(apis, source_file)
        sorted == SortByKey([i \in DOMAIN mine |->
                                [key |-> mine[i].start_line, val |-> mine[i]]])
    IN  << << "### ", "BQ", PathName(source_file), "BQ" >> >>
        \o [i \in DOMAIN sorted |-> ApiLine(sorted[i].val)]
        \o << << >> >>

RECURSIVE FileBlocks(_, _)
FileBlocks(apis, source_files) ==
    IF source_files = << >> THEN << >>
    ELSE FileBlock(apis, Head(source_files).val)
         \o FileBlocks(apis, Tail(source_files))

_generate_apis_summary(apis) ==
    IF apis = << >> THEN << >>
    ELSE LET apis_by_file == {apis[i].source_file : i \in DOMAIN apis}
             lines == FileBlocks(apis, SortedSet({[key |-> StringRank(f), val |-> f] :
                                                     f \in apis_by_file}))
             popped == IF lines # << >> /\ lines[Len(lines)] = << >>
                       THEN SubSeq(lines, 1, Len(lines) - 1) ELSE lines
         IN  JoinLines(popped)

TocEntry(section_name, start_line, end_line) ==
    [section_name |-> section_name, start_line |-> start_line,
     end_line |-> end_line]

\* len(summary.split('\n')) if summary else 1
ContentLines(summary) == IF summary # << >> THEN Len(SplitLines(summary)) ELSE 1

\* the number of lines _calculate_table_of_contents takes for the Metadata
\* section: header + 2 metadata items + empty line
metadata_lines_PerEntry(md) == 1 + Len(md) + 2

metadata_lines(md) == 1 + 2 + 1

\* _calculate_table_of_contents; the metadata `md` is not an argument of the
\* code, it is passed for metadata_lines only
_calculate_table_of_contents(file_types_summary, skillsets_summary, apis_summary, md) ==
    LET toc_entry_count == 4
        metadata_start == 1 + 3 + toc_entry_count + 2
        metadata_end == metadata_start + metadata_lines(md) - 1
        file_types_start == metadata_start + metadata_lines(md)
        file_types_lines == 1 + ContentLines(file_types_summary) + 1
        file_types_end == file_types_start + file_types_lines - 1
        skillsets_start == file_types_start + file_types_lines
        skillsets_lines == 1 + ContentLines(skillsets_summary) + 1
        skillsets_end == skillsets_start + skillsets_lines - 1
        apis_start == skillsets_start + skillsets_lines
        apis_lines == 1 + ContentLines(apis_summary)
        apis_end == apis_start + apis_lines - 1
    IN  [ toc_entries |->
            << TocEntry("Metadata", metadata_start, metadata_end),
               TocEntry("File Types", file_types_start, file_types_end),
               TocEntry("Required Skillsets", skillsets_start, skillsets_end),
               TocEntry("APIs", apis_start, apis_end) >>,
          total_toc_lines |-> toc_entry_count + 2 ]

\* generate_agents_md_content; metadata is the sequence of the dictionary's
\* << key, value >> items
generate_agents_md_content(an, md) ==
    LET file_types_summary == _generate_file_types_summary(an.file_types)
        skillsets_summary == _generate_skillsets_summary(an.required_skillsets)
        apis_summary == _generate_apis_summary(an.apis)
        toc == _calculate_table_of_contents(file_types_summary,
                                            skillsets_summary, apis_summary, md)
    IN  [ toc_lines |-> toc.total_toc_lines,
          table_of_contents |-> toc.toc_entries,
          metadata |-> md,
          file_types_summary |-> file_types_summary,
          required_skillsets_summary |-> skillsets_summary,
          apis_summary |-> apis_summary ]

\* one section of serialize_to_markdown: the summary's lines or a default
SectionBody(summary, default) ==
    IF summary # << >> THEN SplitLines(summary) ELSE << << default >> >>

serialize_to_markdown(content) ==
    LET toc_end_line == 3 + content.toc_lines
        toc == content.table_of_contents
        lines ==
            << << "TABLE-OF-CONTENTS: lines 3-", ToString(toc_end_line) >>,
               << >>,
               << "[TOC]" >> >>
            \o [i \in DOMAIN toc |->
                   << "- ", toc[i].section_name, ": ",
                      ToString(toc[i].start_line), "-",
                      ToString(toc[i].end_line) >>]
            \o << << "[/TOC]" >>, << >> >>
            \o << << "## ", "Metadata" >> >>
            \o [i \in DOMAIN content.metadata |->
                   << "- " >> \o content.metadata[i][1] \o << ": " >>
                       \o content.metadata[i][2]]
            \o << << >> >>
            \o << << "## ", "File Types" >> >>
            \o SectionBody(content.file_types_summary, "No source files found.")
            \o << << >> >>
            \o << << "## ", "Required Skillsets" >> >>
            \o SectionBody(content.required_skillsets_summary,
                           "No specific skillsets identified.")
            \o << << >> >>
            \o << << "## ", "APIs" >> >>
            \o SectionBody(content.apis_summary, "No APIs found.")
    IN  JoinLines(lines)

\* the inputs the model draws from
RECURSIVE SeqsUpTo(_, _)
SeqsUpTo(S, n) ==
    IF n = 0 THEN {<< >>}
    ELSE LET shorter == SeqsUpTo(S, n - 1)
         IN  shorter \cup {Append(s, x) : s \in shorter, x \in S}

FileTypeDicts == { {}, {<< ".py", 2 >>}, {<< ".py", 2 >>, << ".js", 1 >>} }
Skillsets == { << "Python" >>, << "REST" >>, << "Django", "NL", "REST" >> }
ApiInfosOfToc ==
    { [ source_file |-> f, name |-> "f", start_line |-> p[1], end_line |-> 9,
        semantic_description |-> p[2] ] :
        f \in {"src/a.py", "src/b.py"},
        p \in {<< 5, << "d" >> >>, << 1, << "d", "NL", "e" >> >>} }
Analyses ==
    [ file_types : FileTypeDicts,
      required_skillsets : SeqsUpTo(Skillsets, MaxItems),
      apis : SeqsUpTo(ApiInfosOfToc, MaxItems) ]
\* create_metadata: a timestamp and a commit hash; the second set adds a
\* value that holds a newline
CommitHashes == {<< "abc123" >>, << "UNCOMMITTED" >>}
MetadataValues == CommitHashes \cup {<< "abc123", "NL", "dirty" >>}
Metadatas ==
    { << << << "last_generated_utc" >>, << "2024-01-01T00:00:00Z" >> >>,
         << << "commit_hash" >>, v >> >> : v \in MetadataValues }

InitToc ==
    /\ analysis \in Analyses
    /\ metadata \in Metadatas
    /\ markdown = << >>
    /\ table_of_contents = << >>
    /\ toc_done = FALSE
    /\ NoTree /\ NothingRun /\ NothingLogged /\ NothingChunked
    /\ NothingCompared /\ NothingDeduplicated /\ NothingInferred
    /\ NothingAggregated

\* generate_agents_md_content followed by serialize_to_markdown
Serialize ==
    /\ ~toc_done
    /\ LET content == generate_agents_md_content(analysis, metadata) IN
       /\ markdown' = serialize_to_markdown(content)
       /\ table_of_contents' = content.table_of_contents
    /\ toc_done' = TRUE
    /\ UNCHANGED << analysis, metadata >>
    /\ UNCHANGED << fsVars, usageVars, chunkVars, aggVars, walkVars, genVars, verVars,
                    runVars, pureVars >>

NextToc == Serialize

SpecToc == InitToc /\ [][NextToc]_vars

(***************************************************************************)
(* Properties of the table of contents.                                    *)
(***************************************************************************)
DocLines == SplitLines(markdown)

SectionNames == << "Metadata", "File Types", "Required Skillsets", "APIs" >>

\* the table of contents names the four sections in order, each range
\* starts on the section's '## ' header, a range starts on the line after
\* the end of the one before, and the last one ends on the last line
TocAccurate ==
    /\ Len(table_of_contents) = 4
    /\ \A i \in 1 .. 4 :
          LET entry == table_of_contents[i] IN
          /\ entry.section_name = SectionNames[i]
          /\ entry.start_line \in DOMAIN DocLines
          /\ DocLines[entry.start_line] = << "## ", entry.section_name >>
          /\ entry.start_line <= entry.end_line
          /\ i < 4 => table_of_contents[i + 1].start_line = entry.end_line + 1
    /\ table_of_contents[4].end_line = Len(DocLines)

\* no key and no value of the metadata holds a newline
SingleLineMetadata ==
    \A i \in DOMAIN metadata :
        \A j \in {1, 2} : \A k \in DOMAIN metadata[i][j] : metadata[i][j][k] # "NL"

\* C15 as stated: for every DirectoryAnalysis and every two-entry metadata
\* dictionary the table of contents of the serialized document is accurate.
C15_AsStated == toc_done => TocAccurate

\* C15 (amended): for every DirectoryAnalysis and every two-entry metadata
\* dictionary whose keys and values hold no newline, each entry's start_line
\* is the line of its section's '## ' header, the four ranges are in order
\* and contiguous, and the APIs range ends on the document's last line.
C15_TocLineNumbers == (toc_done /\ SingleLineMetadata) => TocAccurate

C15_Witness ==
    /\ toc_done /\ SingleLineMetadata /\ TocAccurate
    /\ Len(analysis.apis) = 2
    /\ analysis.apis[1].source_file # analysis.apis[2].source_file
    /\ \E i \in DOMAIN analysis.required_skillsets :
          Len(analysis.required_skillsets[i]) > 1
    /\ analysis.file_types = {}

(***************************************************************************)
(* generate and verify on a tree whose root holds a .semanticsrc with      *)
(* exclude patterns: the commands are the ones of Spec.                    *)
(***************************************************************************)
\* what R/.semanticsrc lists under `exclude`
RootExcludes ==
    { {GlobPattern(".py")}, {DirPattern(Nm(FALSE, "pkg"))},
      {GlobPattern(".py"), DirPattern(Nm(FALSE, "pkg"))} }

InitExclude ==
    /\ parent \in [Dirs -> Dirs \cup {NoDir}]
    /\ dname \in [Dirs -> {Nm(FALSE, "lib"), Nm(FALSE, "pkg")}]
    /\ TreeOK(parent, dname)
    /\ files \in [Dirs -> { {Fl(FALSE, "notes", ".md")},
                            {Fl(FALSE, "a", ".py"), Fl(FALSE, "notes", ".md")} }]
    /\ readable = [d \in Dirs |-> TRUE]
    /\ \E ex \in RootExcludes :
          semanticsrc = [d \in Dirs |-> IF d = Root THEN ex ELSE {}]
    /\ semantic = [d \in Dirs |-> NoFile]
    /\ available \in BOOLEAN
    /\ yielded = << >>
    /\ walked = FALSE
    /\ NothingRun /\ ServicesIdle
    /\ NothingCompared /\ NothingDeduplicated /\ NothingInferred
    /\ NothingAggregated

SpecExclude == InitExclude /\ [][Next]_vars

\* the path of file f of directory d matches an exclude pattern listed in
\* R/.semanticsrc
ExcludedByRoot(d, f) == should_exclude_path(Root, d, f)

\* C16: during generate on root R, a file whose path matches an exclude
\* pattern of R/.semanticsrc is in the prompt of no processed directory, at
\* whatever depth the directory lies under R, R included.
C16_ExcludedNeverInPrompt ==
    \A d \in Dirs : \A f \in prompt_files[d] : ~ExcludedByRoot(d, f)

\* directory d matches a directory pattern of R/.semanticsrc
DirExcludedByRoot(d) ==
    /\ d # Root
    /\ \E pattern \in get_exclude_patterns(Root) :
          pattern.kind = "dir" /\ dname[d] = pattern.name

\* C17: a directory that matches a directory pattern of the root's
\* .semanticsrc is never yielded by get_directories_to_process and never
\* processed by generate or verify.
C17_ExcludedDirNeverYielded ==
    \A d \in Dirs :
        DirExcludedByRoot(d) =>
            /\ ~InSeq(yielded, d)
            /\ pc[d] = "none"
            /\ semantic[d] = NoFile

(***************************************************************************)
(* Chunking of large files (services/llm_client.py)                        *)
(*                                                                         *)
(* A file content is kept as its length in characters and the positions    *)
(* (from 0) of its newlines: _create_overlapping_chunks reads nothing else *)
(* of it.  A chunk is the slice content[start:stop], kept as its bounds.   *)
(***************************************************************************)
\* bounds: the length of the small contents and their number of newlines
MaxContent == 18
MaxNewlines == 2
\* the passes of the loop of _create_overlapping_chunks that are followed; a
\* call that ends needs fewer on the contents below
MaxChunks == 8

Min(a, b) == IF a <= b THEN a ELSE b

\* get_context_window_size
context_windows(model) ==
    CASE model = "gpt-3.5-turbo" -> 16385
      [] model = "gpt-4" -> 8192
      [] model \in {"gpt-4-turbo-preview", "gpt-4o", "gpt-4o-mini"} -> 128000
      [] model \in {"gpt-5-nano", "gpt-5-mini", "gpt-5"} -> 400000
      [] OTHER -> 400000
get_context_window_size == context_windows("gpt-5-mini")

\* len(text) // 4
estimate_tokens(length) == length \div 4

\* int(context_window * 0.4), int(context_window * 0.35) and
\* int(context_window * 0.05), for the window sizes of the table
ThresholdOf(window) == (window * 40) \div 100
ChunkSizeOf_FortyFivePercent(window) == (window * 45) \div 100

ChunkSizeOf(window) == (window * 35) \div 100
OverlapSizeOf(window) == (window * 5) \div 100

\* chunk_text.rfind('\n') for chunk_text = content[from:to]
RFindNewline(c, from, to) ==
    LET inside == {p \in c.newlines : from <= p /\ p < to} IN
    IF inside = {} THEN -1
    ELSE (CHOOSE p \in inside : \A q \in inside : q <= p) - from

\* the test of line 396, `current_pos <= len(chunks[-1]) if chunks else False`,
\* on the position computed at line 395
AvoidLoop(pos, cs) == IF cs # << >> THEN pos <= cs[Len(cs)].stop - cs[Len(cs)].start
                      ELSE FALSE

\* lines 395-397: the position of the next chunk, overlap_size_chars before
\* the end of the chunk just appended, or that end
NextStart_AfterEnd(chunk_end, overlap_size_chars, cs) ==
    IF AvoidLoop(chunk_end - overlap_size_chars, cs)
    THEN chunk_end + 1 ELSE chunk_end - overlap_size_chars

NextStart(chunk_end, overlap_size_chars, cs) ==
    IF AvoidLoop(chunk_end - overlap_size_chars, cs)
    THEN chunk_end ELSE chunk_end - overlap_size_chars

chunkRest == << fsVars, usageVars, tocVars, walkVars, genVars, verVars, runVars,
                pureVars, aggVars >>

\* analyze_file_comprehensively: a file above 40% of the context window
\* goes to _analyze_large_file_comprehensively, which chunks it with 35%
\* and 5% of the window; a smaller one is analysed whole
AnalyzeFile ==
    /\ chunk_state = "idle"
    /\ LET context_window == get_context_window_size
           threshold == ThresholdOf(context_window)
       IN  IF estimate_tokens(file_content.len) > threshold
           THEN /\ chunk_state' = "running"
                /\ chunk_size_tokens' = ChunkSizeOf(context_window)
                /\ overlap_size_tokens' = OverlapSizeOf(context_window)
                /\ chunk_threshold' = threshold
           ELSE /\ chunk_state' = "single"
                /\ UNCHANGED << chunk_size_tokens, overlap_size_tokens,
                                chunk_threshold >>
    /\ UNCHANGED << file_content, current_pos, chunks >>
    /\ UNCHANGED chunkRest

\* a call of _create_overlapping_chunks with sizes of its own, on one of
\* the small contents
CreateChunks(size, overlap) ==
    /\ chunk_state = "idle"
    /\ file_content.len <= MaxContent
    /\ chunk_state' = "running"
    /\ chunk_size_tokens' = size
    /\ overlap_size_tokens' = overlap
    /\ UNCHANGED << file_content, current_pos, chunks, chunk_threshold >>
    /\ UNCHANGED chunkRest

\* one pass of the while loop of _create_overlapping_chunks (lines 377-397),
\* or its exit when the condition fails
ChunkIteration ==
    /\ chunk_state = "running"
    /\ Len(chunks) < MaxChunks
    /\ LET chunk_size_chars == chunk_size_tokens * 4
           overlap_size_chars == overlap_size_tokens * 4
           end0 == Min(current_pos + chunk_size_chars, file_content.len)
           last_newline == RFindNewline(file_content, current_pos, end0)
           cut == end0 < file_content.len /\ last_newline > (end0 - current_pos) \div 2
           chunk_end == IF cut THEN current_pos + last_newline ELSE end0
           appended == Append(chunks, [start |-> current_pos, stop |-> chunk_end])
       IN  IF ~(current_pos < file_content.len)
           THEN /\ chunk_state' = "returned"
                /\ UNCHANGED << current_pos, chunks >>
           ELSE /\ chunks' = appended
                /\ IF chunk_end >= file_content.len
                   THEN /\ chunk_state' = "returned"
                        /\ UNCHANGED current_pos
                   ELSE /\ current_pos' =
                               NextStart(chunk_end, overlap_size_chars, appended)
                        /\ UNCHANGED chunk_state
    /\ UNCHANGED << file_content, chunk_size_tokens, overlap_size_tokens, chunk_threshold >>
    /\ UNCHANGED chunkRest

\* the contents the model draws from: every small content with at most
\* MaxNewlines newlines, and large ones around the production sizes
SmallContents ==
    { [len |-> n, newlines |-> nl] :
        n \in 0 .. MaxContent,
        nl \in {s \in SUBSET (0 .. (MaxContent - 1)) : Cardinality(s) <= MaxNewlines} }
LargeLengths == {640000, 640004, 1200000}
LargeNewlines == {0, 280000, 280001, 559999, 560000, 1000000}
LargeContents ==
    { [len |-> n, newlines |-> nl] :
        n \in LargeLengths,
        nl \in {s \in SUBSET LargeNewlines : Cardinality(s) <= MaxNewlines} }
Contents ==
    {c \in SmallContents \cup LargeContents : \A p \in c.newlines : p < c.len}
\* the sizes _analyze_large_file_comprehensively passes
ProductionSizes == << ChunkSizeOf(get_context_window_size),
                      OverlapSizeOf(get_context_window_size) >>
\* << chunk_size_tokens, overlap_size_tokens >> of the direct calls: overlaps
\* below, at and above the chunk size, and the production sizes
ChunkSizes == { << 2, 0 >>, << 2, 1 >>, << 3, 1 >>, << 3, 2 >>, << 2, 2 >>,
                << 1, 2 >>, ProductionSizes }

InitChunk ==
    /\ file_content \in Contents
    /\ chunk_size_tokens = 0 /\ overlap_size_tokens = 0 /\ chunk_threshold = 0
    /\ current_pos = 0 /\ chunks = << >>
    /\ chunk_state = "idle"
    /\ NoTree /\ NothingRun /\ NothingLogged /\ NothingSerialized
    /\ NothingCompared /\ NothingDeduplicated /\ NothingInferred
    /\ NothingAggregated

NextChunk ==
    \/ AnalyzeFile
    \/ \E a \in ChunkSizes : CreateChunks(a[1], a[2])
    \/ ChunkIteration

SpecChunk == InitChunk /\ [][NextChunk]_vars

(***************************************************************************)
(* Properties of the chunks.                                               *)
(***************************************************************************)
ChunkLen(ch) == ch.stop - ch.start

\* chunk i+1 starts overlap_size_tokens*4 characters before the end of
\* chunk i
StartsInsidePrevious(i) ==
    chunks[i + 1].start = chunks[i].stop - overlap_size_tokens * 4

\* C18: when the content has been split into two or more chunks, every
\* chunk after the first starts overlap_size_tokens*4 characters before the
\* end of the preceding chunk, the second chunk included.
C18_ConsecutiveChunksOverlap ==
    (chunk_state = "returned" /\ Len(chunks) >= 2) =>
        \A i \in 1 .. (Len(chunks) - 1) : StartsInsidePrevious(i)

\* C19: every chunk has at most chunk_size_tokens*4 characters; with the
\* production parameters (set by analyze_file_comprehensively) the estimated
\* token count of every chunk is below the 40% threshold that triggered the
\* chunking.
C19_ChunkSizeBounded ==
    \A i \in DOMAIN chunks :
        /\ ChunkLen(chunks[i]) <= chunk_size_tokens * 4
        /\ chunk_threshold > 0 =>
              estimate_tokens(ChunkLen(chunks[i])) < chunk_threshold

C19_Witness ==
    /\ chunk_state = "returned"
    /\ chunk_threshold = 160000
    /\ Len(chunks) >= 2
    /\ ChunkLen(chunks[1]) = chunk_size_tokens * 4
    /\ estimate_tokens(ChunkLen(chunks[1])) = 140000
    /\ ChunkLen(chunks[2]) < chunk_size_tokens * 4

\* a pass of the loop that appends a chunk and goes on to another pass
NextPass ==
    /\ chunk_state = "running" /\ chunk_state' = "running"
    /\ chunks' # chunks

\* C23: _create_overlapping_chunks terminates for every content, every
\* chunk size of at least 1 token and every overlap of at least 0 tokens,
\* an overlap equal to or above the chunk size included: the start position
\* of the next chunk strictly increases on every pass of the loop.
C23_StartIncreases ==
    [][NextPass => current_pos' > current_pos]_vars

\* the call has the sizes _analyze_large_file_comprehensively passes
Production ==
    /\ chunk_size_tokens = ProductionSizes[1]
    /\ overlap_size_tokens = ProductionSizes[2]

\* the end of the content covered by the chunks 1 .. i
RECURSIVE CoveredUpTo(_)
CoveredUpTo(i) ==
    IF i = 0 THEN 0
    ELSE LET before == CoveredUpTo(i - 1) IN
         IF chunks[i].stop > before THEN chunks[i].stop ELSE before

\* C24: for a non-empty content and the production parameters the chunks
\* cover the content: the first chunk starts at 0, the last ends at the end
\* of the content, the starts strictly increase, and no position is left
\* out (a chunk starts no later than where the chunks before it end).
C24_ChunksCover ==
    (chunk_state = "returned" /\ Production /\ file_content.len > 0) =>
        /\ chunks # << >>
        /\ chunks[1].start = 0
        /\ chunks[Len(chunks)].stop = file_content.len
        /\ \A i \in 1 .. (Len(chunks) - 1) :
              /\ chunks[i + 1].start > chunks[i].start
              /\ chunks[i + 1].start <= CoveredUpTo(i)

\* three chunks of a large file, the first cut at a newline and the third
\* overlapping the second
C24_Witness ==
    /\ chunk_state = "returned" /\ Production
    /\ Len(chunks) = 3
    /\ ChunkLen(chunks[1]) < chunk_size_tokens * 4
    /\ chunks[2].start = chunks[1].stop
    /\ chunks[3].start = chunks[2].stop - overlap_size_tokens * 4
    /\ chunks[3].stop = file_content.len

(***************************************************************************)
(* The walker against AnalysisOrchestrator._get_source_files: the          *)
(* directories generate is given, and the files it finds in them.          *)
(***************************************************************************)
\* directory listings: a.py, the hidden file .lint.json, stubs.pyi, notes.txt
SourceListings ==
    { {}, {Fl(FALSE, "a", ".py")}, {Fl(TRUE, "lint", ".json")},
      {Fl(FALSE, "stubs", ".pyi")}, {Fl(FALSE, "notes", ".txt")} }

InitSources ==
    /\ parent \in [Dirs -> Dirs \cup {NoDir}]
    /\ dname \in [Dirs -> {Nm(FALSE, "lib"), Nm(FALSE, "node_modules")}]
    /\ TreeOK(parent, dname)
    /\ files \in [Dirs -> SourceListings]
    /\ readable = [d \in Dirs |-> TRUE]
    /\ semanticsrc = [d \in Dirs |-> {}]
    /\ semantic = [d \in Dirs |-> NoFile]
    /\ available = TRUE
    /\ yielded = << >>
    /\ walked = FALSE
    /\ NothingRun /\ ServicesIdle
    /\ NothingCompared /\ NothingDeduplicated /\ NothingInferred
    /\ NothingAggregated

SpecSources == InitSources /\ [][NextWalk]_vars

\* d lies under no skipped directory and is not one
UnderNoSkipped(d) == \A a \in AncestorsOrSelf(d) : ~should_skip_directory(a)

\* C25: every directory yielded by get_directories_to_process has at least
\* one file returned by _get_source_files with no configured exclusions;
\* conversely every directory with such a file that lies under no skipped
\* directory is yielded.
C25_YieldedIffSourceFiles ==
    walked =>
        \A d \in Dirs :
            /\ InSeq(yielded, d) => _get_source_files(d, NoDir) # {}
            /\ (_get_source_files(d, NoDir) # {} /\ UnderNoSkipped(d))
                  => InSeq(yielded, d)

\* the model summarize_async passes to _make_llm_request_async
summarize_async_model == "gpt-5-nano"

\* request r is a call of summarize_async whose response has arrived with a
\* positive number of tokens
SummarizeAsyncResponded(r) ==
    /\ ukind[r] = "async" /\ umodel[r] = summarize_async_model
    /\ InLogUsage(r) \/ upc[r] = "returned"
    /\ utok[r].input_tokens + utok[r].output_tokens > 0

\* C27: for every LLM call made by generate (summarize_async with its
\* default model) that consumes a positive number of tokens, the model has
\* an entry in the cost table of the collector and the estimated cost added
\* to the session total is positive.
C27_DefaultModelHasCost ==
    \A r \in Reqs :
        SummarizeAsyncResponded(r) =>
            /\ ModelKey(umodel[r]) \in DOMAIN COST_PER_1K_TOKENS[LLMProviderOPENAI]
            /\ ucost[r] > 0

(***************************************************************************)
(* AnalysisOrchestrator._aggregate_analysis_results                        *)
(*                                                                         *)
(* An ApiInfo is the record of its name, source_file and start_line, a     *)
(* fragment the record of its apis and skillsets.  file_types is handed    *)
(* through unchanged and left out.                                         *)
(***************************************************************************)
MaxAggregated == 2

\* the key of all_apis.sort: (api.source_file, api.start_line)
ApiSortKey(api) == << StringRank(api.source_file), api.start_line >>
\* Python's order on these tuples
TupleLess(a, b) == a[1] < b[1] \/ (a[1] = b[1] /\ a[2] < b[2])

\* list.sort(key=...): stable
RECURSIVE InsertApi(_, _)
InsertApi(x, s) ==
    IF s = << >> THEN << x >>
    ELSE IF TupleLess(ApiSortKey(x), ApiSortKey(Head(s))) THEN << x >> \o s
    ELSE << Head(s) >> \o InsertApi(x, Tail(s))

RECURSIVE SortApis(_)
SortApis(s) ==
    IF s = << >> THEN << >>
    ELSE InsertApi(s[Len(s)], SortApis(SubSeq(s, 1, Len(s) - 1)))

\* sorted(list(skillset_set))
RECURSIVE SortStrings(_)
SortStrings(S) ==
    IF S = {} THEN << >>
    ELSE LET m == CHOOSE x \in S : \A y \in S : StringRank(x) <= StringRank(y)
         IN  << m >> \o SortStrings(S \ {m})

\* the loop `for fragment in fragments: all_apis.extend(fragment.apis)`
RECURSIVE FragmentApis(_)
FragmentApis(frs) ==
    IF frs = << >> THEN << >> ELSE Head(frs).apis \o FragmentApis(Tail(frs))

\* the loop `for fragment in fragments: skillset_set.update(fragment.skillsets)`
FragmentSkillsets(frs) ==
    UNION { {frs[i].skillsets[j] : j \in DOMAIN frs[i].skillsets} : i \in DOMAIN frs }

\* all_apis before the sort: the LLM APIs if there is one, else the APIs of
\* the fragments
all_apis_Mixed(frs, la) == la \o FragmentApis(frs)

all_apis(frs, la) == IF la # << >> THEN la ELSE FragmentApis(frs)

\* skillset_set: the skillsets of the fragments in both branches, and the
\* LLM skillsets if there is one
skillset_set(frs, ls) == FragmentSkillsets(frs) \cup {ls[i] : i \in DOMAIN ls}

_aggregate_analysis_results(frs, ls, la) ==
    [ required_skillsets |-> SortStrings(skillset_set(frs, ls)),
      apis |-> SortApis(all_apis(frs, la)) ]

AggregatedApis ==
    { [name |-> "f", source_file |-> "src/b.py", start_line |-> 1],
      [name |-> "g", source_file |-> "src/a.py", start_line |-> 5],
      [name |-> "g", source_file |-> "src/a.py", start_line |-> 1] }
Fragments ==
    [ apis : SeqsUpTo(AggregatedApis, 1),
      skillsets : {<< >>, << "Python" >>, << "REST", "Python" >>} ]
LLMSkillsets == SeqsUpTo({"Django", "Python"}, 2)

InitAggregate ==
    /\ fragments \in SeqsUpTo(Fragments, MaxAggregated)
    /\ llm_apis \in SeqsUpTo(AggregatedApis, MaxAggregated)
    /\ llm_skillsets \in LLMSkillsets
    /\ directory_analysis = [required_skillsets |-> << >>, apis |-> << >>]
    /\ aggregated = FALSE
    /\ NoTree /\ NothingRun /\ ServicesIdle
    /\ NothingCompared /\ NothingDeduplicated /\ NothingInferred

Aggregate ==
    /\ ~aggregated
    /\ directory_analysis' =
          _aggregate_analysis_results(fragments, llm_skillsets, llm_apis)
    /\ aggregated' = TRUE
    /\ UNCHANGED << fragments, llm_apis, llm_skillsets >>
    /\ UNCHANGED << fsVars, usageVars, tocVars, chunkVars, walkVars, genVars,
                    verVars, runVars, pureVars >>

NextAggregate == Aggregate

SpecAggregate == InitAggregate /\ [][NextAggregate]_vars

\* the number of times x occurs in the list s
Occurrences(s, x) == Cardinality({i \in DOMAIN s : s[i] = x})
\* the lists hold the same elements the same number of times
SameElements(s, t) ==
    /\ Len(s) = Len(t)
    /\ \A i \in DOMAIN s : Occurrences(s, s[i]) = Occurrences(t, s[i])

\* C26: the APIs of the DirectoryAnalysis are exactly the LLM-extracted APIs
\* when there is at least one and exactly the parser-extracted APIs
\* otherwise, sorted by (source_file, start_line); required_skillsets is the
\* duplicate-free, sorted union of the parser and the LLM skillsets in both
\* cases.
C26_AggregatedApisAndSkillsets ==
    aggregated =>
        LET apis == directory_analysis.apis
            skills == directory_analysis.required_skillsets
        IN  /\ SameElements(apis, IF Len(llm_apis) >= 1 THEN llm_apis
                                  ELSE FragmentApis(fragments))
            /\ \A i \in 1 .. (Len(apis) - 1) :
                  ~TupleLess(ApiSortKey(apis[i + 1]), ApiSortKey(apis[i]))
            /\ {skills[i] : i \in DOMAIN skills} =
                  FragmentSkillsets(fragments) \cup
                  {llm_skillsets[i] : i \in DOMAIN llm_skillsets}
            /\ \A i \in 1 .. (Len(skills) - 1) :
                  StringRank(skills[i]) < StringRank(skills[i + 1])

\* LLM APIs that arrive out of order replace the parser's, while the
\* skillsets of both sides, which share one, are merged
C26_Witness ==
    /\ aggregated
    /\ Len(llm_apis) = 2 /\ llm_apis # directory_analysis.apis
    /\ FragmentApis(fragments) # << >>
    /\ \E x \in DOMAIN llm_skillsets :
          llm_skillsets[x] \in FragmentSkillsets(fragments)
    /\ Len(directory_analysis.required_skillsets) = 3

====
